---- MODULE Spec2Model ----
(***************************************************************************)
(* Model of src/src/ContactForm.tsx: the zod schema contactSchema, the     *)
(* zodResolver over it, and the react-hook-form controller created by      *)
(* useForm({ resolver, mode: "onBlur" }) with its change, blur and submit  *)
(* handlers and the onSubmit sink.                                         *)
(*                                                                         *)
(* Text is a sequence of one-character strings.  A JavaScript number is a  *)
(* record [nan, num, den]: NaN, or the decimal num/den with den a power of *)
(* ten, so that non-integers such as 18.5 are exact.                       *)
(***************************************************************************)
EXTENDS Integers, Sequences, FiniteSets, TLC

(***************************************************************************)
(* Bounds of the model.                                                    *)
(***************************************************************************)
\* longest phone text explored by the validator specification
MaxPhoneLen == 12
\* longest age text explored by the validator specification
MaxAgeLen == 4
\* longest email text explored by the validator specification
MaxEmailLen == 6
\* submit attempts explored by the form specification
MaxSubmits == 1
\* blur events explored by the form specification
MaxBlurs == 2

(***************************************************************************)
(* Constants of the schema.                                                *)
(***************************************************************************)
NameMinLen == 2
PhoneMinDigits == 10
PhoneMaxDigits == 11
AgeMin == 18
AgeMax == 120
MessageMinLen == 10

\* the keys of contactSchema, in declaration order
FieldOrder ==
  << "name", "email", "phone", "age", "gender", "inquiryType", "message", "agree" >>

Fields == { FieldOrder[i] : i \in 1..Len(FieldOrder) }

\* the messages of the schema (the source gives them in Japanese; the model
\* keeps one distinct string for each)
MsgName == "name: at least 2 characters are required"
MsgEmail == "email: enter a valid email address"
MsgPhone == "phone: enter 10 to 11 digits"
MsgAgeType == "age: enter a number"
MsgAgeMin == "age: must be 18 or older"
MsgAgeMax == "age: invalid age"
MsgGender == "gender: select a gender"
MsgInquiryType == "inquiryType: select an inquiry type"
MsgMessage == "message: enter at least 10 characters"
MsgAgree == "agree: agree to the terms of use"
\* zod's default message for z.string() given a value that is no string
MsgExpectedString == "Expected string"

\* the value react-hook-form reads from a radio group with nothing checked
Null == "<null>"

\* the options of z.enum([...]) for gender
GenderOptions == { "male", "female", "other" }

\* the non-placeholder <option> values of the inquiryType <select>
InquiryOptions == { "general", "support", "feedback" }

(***************************************************************************)
(* Characters and numbers.                                                 *)
(***************************************************************************)
Digits == { "0", "1", "2", "3", "4", "5", "6", "7", "8", "9" }

DigitVal(c) ==
  CASE c = "0" -> 0 [] c = "1" -> 1 [] c = "2" -> 2 [] c = "3" -> 3
    [] c = "4" -> 4 [] c = "5" -> 5 [] c = "6" -> 6 [] c = "7" -> 7
    [] c = "8" -> 8 [] c = "9" -> 9

Letters == { "a", "b", "c", "m", "o" }

AllIn(s, S) == \A i \in 1..Len(s) : s[i] \in S

RECURSIVE Pow10(_)
Pow10(k) == IF k = 0 THEN 1 ELSE 10 * Pow10(k - 1)

RECURSIVE DigitsValue(_)
\* the natural number a digit string denotes (0 for the empty string)
DigitsValue(s) ==
  IF s = << >> THEN 0
  ELSE 10 * DigitsValue(SubSeq(s, 1, Len(s) - 1)) + DigitVal(s[Len(s)])

NaN == [nan |-> TRUE, num |-> 0, den |-> 1]

RECURSIVE Reduce(_, _)
\* the canonical record of num/den: trailing decimal zeros dropped
Reduce(num, den) ==
  IF den > 1 /\ num % 10 = 0 THEN Reduce(num \div 10, den \div 10)
  ELSE [nan |-> FALSE, num |-> num, den |-> den]

IsNaN(x) == x.nan
\* x < n and x > n for a number x and an integer n
NumLess(x, n) == x.num < n * x.den
NumGreater(x, n) == x.num > n * x.den

\* position of the first "." of s, or 0
FirstDot(s) ==
  IF \E i \in 1..Len(s) : s[i] = "."
  THEN CHOOSE i \in 1..Len(s) : s[i] = "." /\ \A j \in 1..(i - 1) : s[j] # "."
  ELSE 0

\* s without a leading "-"
Unsigned(s) == IF s # << >> /\ s[1] = "-" THEN Tail(s) ELSE s

\* HTML's "valid floating-point number", without the exponent part
IsValidFloat(s) ==
  LET u == Unsigned(s)
      d == FirstDot(u)
  IN  IF d = 0 THEN u # << >> /\ AllIn(u, Digits)
      ELSE /\ AllIn(SubSeq(u, 1, d - 1), Digits)
           /\ d < Len(u)
           /\ AllIn(SubSeq(u, d + 1, Len(u)), Digits)

\* JavaScript's +s for a valid floating-point number s
ToNumber(s) ==
  LET u == Unsigned(s)
      d == FirstDot(u)
      int == IF d = 0 THEN u ELSE SubSeq(u, 1, d - 1)
      frac == IF d = 0 THEN << >> ELSE SubSeq(u, d + 1, Len(u))
      mag == DigitsValue(int \o frac)
  IN  Reduce(IF s[1] = "-" THEN 0 - mag ELSE mag, Pow10(Len(frac)))

(***************************************************************************)
(* contactSchema: one check per key, each giving the messages of the       *)
(* issues zod raises for that key, in the order zod raises them.           *)
(***************************************************************************)
\* z.string().min(2, ...)
nameIssues(v) == IF Len(v) < NameMinLen THEN << MsgName >> ELSE << >>

LocalChars == Letters \cup Digits \cup { "_", "'", "+", "-", "." }
LocalLast == Letters \cup Digits \cup { "_", "+", "-" }
LabelChars == Letters \cup Digits \cup { "-" }

\* the positions of the character c in s
Positions(s, c) == { i \in 1..Len(s) : s[i] = c }

\* ([A-Z0-9][A-Z0-9\-]*\.)+[A-Z]{2,} matched against the whole of d
DomainMatches(d) ==
  LET dots == Positions(d, ".")
      last == IF dots = { } THEN 0 ELSE CHOOSE i \in dots : \A j \in dots : j <= i
      LabelOK(from, to) ==
        /\ from <= to
        /\ d[from] \in Letters \cup Digits
        /\ \A i \in from..to : d[i] \in LabelChars
  IN  /\ dots # { }
      /\ Len(d) - last >= 2
      /\ \A i \in (last + 1)..Len(d) : d[i] \in Letters
      /\ \A i \in dots :
           LET prev == { j \in dots : j < i }
               from == IF prev = { } THEN 1
                       ELSE 1 + CHOOSE j \in prev : \A k \in prev : k <= j
           IN  LabelOK(from, i - 1)

\* zod's email pattern, matched against the whole of s:
\* ^(?!\.)(?!.*\.\.)([A-Z0-9_'+\-\.]*)[A-Z0-9_+-]@([A-Z0-9][A-Z0-9\-]*\.)+[A-Z]{2,}$
EmailMatches(s) ==
  LET ats == Positions(s, "@")
  IN  /\ Cardinality(ats) = 1
      /\ LET at == CHOOSE i \in ats : TRUE
             local == SubSeq(s, 1, at - 1)
         IN  /\ local # << >>
             /\ AllIn(local, LocalChars)
             /\ local[Len(local)] \in LocalLast
             /\ s[1] # "."
             /\ \A i \in 1..(Len(s) - 1) : ~(s[i] = "." /\ s[i + 1] = ".")
             /\ DomainMatches(SubSeq(s, at + 1, Len(s)))

\* z.string().email(...)
emailIssues(v) == IF EmailMatches(v) THEN << >> ELSE << MsgEmail >>

\* the number of leading characters of s that are digits
LeadingDigits(s) ==
  IF \E i \in 1..Len(s) : s[i] \notin Digits
  THEN (CHOOSE i \in 1..Len(s) :
          s[i] \notin Digits /\ \A j \in 1..(i - 1) : s[j] \in Digits) - 1
  ELSE Len(s)

\* mutant of PhoneMatches: the pattern without its end anchor
PhoneMatchesPrefix(s) ==
  \E m \in PhoneMinDigits..PhoneMaxDigits : m <= LeadingDigits(s)

\* /^[0-9]{10,11}$/.test(s): some count of leading digits within 10..11 ends
\* at the end of the text
PhoneMatches(s) ==
  \E m \in PhoneMinDigits..PhoneMaxDigits : m <= LeadingDigits(s) /\ m = Len(s)

\* z.string().regex(/^[0-9]{10,11}$/, ...)
phoneIssues(v) == IF PhoneMatches(v) THEN << >> ELSE << MsgPhone >>

\* z.number({ invalid_type_error }).min(18, ...).max(120, ...): NaN is no
\* number for zod and ends the check; otherwise both bounds are checked
ageIssues(x) ==
  IF IsNaN(x) THEN << MsgAgeType >>
  ELSE (IF NumLess(x, AgeMin) THEN << MsgAgeMin >> ELSE << >>)
       \o (IF NumGreater(x, AgeMax) THEN << MsgAgeMax >> ELSE << >>)

\* z.enum(["male", "female", "other"], { errorMap })
genderIssues(v) == IF v \in GenderOptions THEN << >> ELSE << MsgGender >>

\* z.string().nonempty(...)
inquiryTypeIssues(v) ==
  IF v = Null THEN << MsgExpectedString >>
  ELSE IF v = "" THEN << MsgInquiryType >> ELSE << >>

\* z.string().min(10, ...)
messageIssues(v) == IF Len(v) < MessageMinLen THEN << MsgMessage >> ELSE << >>

\* mutant of agreeIssues: z.boolean() without the refinement
agreeIssuesAnyBoolean(v) == << >>

\* z.boolean().refine((val) => val, ...)
agreeIssues(v) == IF v THEN << >> ELSE << MsgAgree >>

\* the messages of the issues of key f for the record r
FieldIssues(f, r) ==
  CASE f = "name" -> nameIssues(r.name)
    [] f = "email" -> emailIssues(r.email)
    [] f = "phone" -> phoneIssues(r.phone)
    [] f = "age" -> ageIssues(r.age)
    [] f = "gender" -> genderIssues(r.gender)
    [] f = "inquiryType" -> inquiryTypeIssues(r.inquiryType)
    [] f = "message" -> messageIssues(r.message)
    [] f = "agree" -> agreeIssues(r.agree)

RECURSIVE IssuesFrom(_, _)
\* the issues of the keys FieldOrder[i..], each [path, message]
IssuesFrom(i, r) ==
  IF i > Len(FieldOrder) THEN << >>
  ELSE LET f == FieldOrder[i]
           ms == FieldIssues(f, r)
       IN  [k \in 1..Len(ms) |-> [path |-> f, message |-> ms[k]]]
           \o IssuesFrom(i + 1, r)

\* mutant of contactSchema: the parse stops at the first key with an issue
contactSchemaAbortEarly(r) ==
  LET all == IssuesFrom(1, r)
      issues == SelectSeq(all, LAMBDA i : i.path = all[1].path)
  IN  [success |-> issues = << >>, data |-> r, issues |-> issues]

\* contactSchema.safeParse(r): z.object checks every key and collects the issues
contactSchema(r) ==
  LET issues == IssuesFrom(1, r)
  IN  [success |-> issues = << >>, data |-> r, issues |-> issues]

NoError == ""
NoErrors == [f \in Fields |-> NoError]

\* toNestErrors: for each path, the message of the first issue with that path
FirstErrors(issues) ==
  [f \in Fields |->
     IF \E k \in 1..Len(issues) : issues[k].path = f
     THEN issues[CHOOSE k \in 1..Len(issues) :
                   /\ issues[k].path = f
                   /\ \A j \in 1..(k - 1) : issues[j].path # f].message
     ELSE NoError]

\* zodResolver(contactSchema)(r): { values: data, errors: {} } on success and
\* { values: {}, errors } otherwise
zodResolver(r) ==
  LET parsed == contactSchema(r)
  IN  IF parsed.success
      THEN [ok |-> TRUE, values |-> parsed.data, errors |-> NoErrors, ran |-> FALSE]
      ELSE [ok |-> FALSE, values |-> << >>, errors |-> FirstErrors(parsed.issues),
            ran |-> FALSE]

(***************************************************************************)
(* The controls of the form and the values react-hook-form reads from them. *)
(***************************************************************************)
\* <input type="number">: the control's value is the typed text when that is
\* a valid floating-point number, and the empty string otherwise
NumberInputValue(text) == IF IsValidFloat(text) THEN text ELSE << >>

\* mutant of valueAsNumber: plain Number(value), for which '' is 0
valueAsNumberCoerced(value) == IF value = << >> THEN Reduce(0, 1) ELSE ToNumber(value)

\* register("age", { valueAsNumber: true }): '' reads as NaN, other values as +value
valueAsNumber(value) == IF value = << >> THEN NaN ELSE ToNumber(value)

\* getFieldValue(field._f): what react-hook-form reads from the control of f
\* holding c; only age is registered with a conversion
getFieldValue(f, c) == IF f = "age" THEN valueAsNumber(NumberInputValue(c)) ELSE c

\* the texts typed into the controls by the form specification
NameTexts == { << >>, << "a", "b" >> }
EmailTexts == { << >>, << "a", "@", "b", ".", "c", "o", "m" >> }
PhoneTexts == { << >>, << "0", "9", "0", "1", "2", "3", "4", "5", "6", "7", "8" >> }
AgeTexts ==
  { << >>, << "x" >>, << "1", "5" >>, << "1", "8", ".", "5" >>, << "2", "5" >> }

MessageTexts ==
  { << >>, << "a", "b", "c", "a", "b", "c", "a", "b", "c", "a" >> }

\* the radio buttons and the <option>s the form specification clicks
RadioChoices == { "male", "female" }
SelectChoices == { "", "general" }

\* what a change event can leave in the control named f, as the value
\* react-hook-form reads from it
ControlValues(f) ==
  CASE f = "name" -> NameTexts
    [] f = "email" -> EmailTexts
    [] f = "phone" -> PhoneTexts
    [] f = "age" -> { getFieldValue("age", t) : t \in AgeTexts }
    [] f = "gender" -> RadioChoices
    [] f = "inquiryType" -> SelectChoices
    [] f = "message" -> MessageTexts
    [] f = "agree" -> BOOLEAN

\* the controls as the form mounts: empty texts, an unchecked radio group,
\* the placeholder option of the select, an unchecked checkbox
mountedControls ==
  [name |-> << >>, email |-> << >>, phone |-> << >>, age |-> << >>,
   gender |-> Null, inquiryType |-> "", message |-> << >>, agree |-> FALSE]

\* the record react-hook-form reads from the controls c
getFieldValues(c) == [f \in Fields |-> getFieldValue(f, c[f])]

\* the values read as the form mounts and registers its controls
defaultValues == getFieldValues(mountedControls)

NotRun == [ok |-> FALSE, values |-> << >>, errors |-> NoErrors, ran |-> FALSE]

VARIABLES
  values,         \* the form's draft: react-hook-form's _formValues
  errors,         \* formState.errors: field -> message, NoError when unset
  isSubmitted,    \* formState.isSubmitted
  submitCount,    \* formState.submitCount
  sink,           \* the records onSubmit has been called with, in order
  blurCount,      \* blur events so far
  nameFailed,     \* history: name has failed validation on its own blur or on a
                  \* submit attempt
  controls,       \* validator specification: the contents of the controls
  result          \* validator specification: what the resolver returned for them

vars ==
  << values, errors, isSubmitted, submitCount, sink, blurCount, nameFailed,
     controls, result >>

\* useForm({ resolver: zodResolver(contactSchema), mode: "onBlur" }) and the
\* first render, which registers the eight controls
Init ==
  /\ values = defaultValues
  /\ errors = NoErrors
  /\ isSubmitted = FALSE
  /\ submitCount = 0
  /\ sink = << >>
  /\ blurCount = 0
  /\ nameFailed = FALSE
  /\ controls = mountedControls
  /\ result = NotRun

\* mutant of skipValidation: mode "onChange", a change event always validates
skipValidationOnChange(isBlurEvent) == isBlurEvent

\* react-hook-form's skipValidation for mode "onBlur" and the default
\* reValidateMode "onChange": before the first submit only a blur event
\* validates, after it only a change event does
skipValidation(isBlurEvent) == IF isSubmitted THEN isBlurEvent ELSE ~isBlurEvent

\* mutant of shouldRenderByError: the handler takes over every entry the
\* resolver returned, not only that of f
shouldRenderAllErrors(f, r) == zodResolver(r).errors

\* the error of field f after the resolver has run on the record r: the
\* handler sets or unsets the entry of f and leaves the others
shouldRenderByError(f, r) == [errors EXCEPT ![f] = zodResolver(r).errors[f]]

\* onChange of register(f), for a change event that leaves v in the control
Change(f, v) ==
  /\ v # values[f]
  /\ values' = [values EXCEPT ![f] = v]
  /\ errors' = IF skipValidation(FALSE) THEN errors
               ELSE shouldRenderByError(f, values')
  /\ UNCHANGED << isSubmitted, submitCount, sink, blurCount, nameFailed,
                  controls, result >>

\* onBlur of register(f)
Blur(f) ==
  /\ blurCount < MaxBlurs
  /\ blurCount' = blurCount + 1
  /\ errors' = IF skipValidation(TRUE) THEN errors
               ELSE shouldRenderByError(f, values)
  /\ nameFailed' = (nameFailed \/ (f = "name" /\ errors'.name # NoError
                                               /\ ~skipValidation(TRUE)))
  /\ UNCHANGED << values, isSubmitted, submitCount, sink, controls, result >>

\* mutant of onSubmit: the handler is called twice for one submit
onSubmitTwice(data) == Append(Append(sink, data), data)

\* const onSubmit = (data) => { console.log(...); alert(...) }
onSubmit(data) == Append(sink, data)

\* mutant of handleSubmit: onSubmit is called whatever the resolver returned
handleSubmitUnchecked ==
  /\ submitCount < MaxSubmits
  /\ errors' = zodResolver(values).errors
  /\ sink' = onSubmit(values)
  /\ isSubmitted' = TRUE
  /\ submitCount' = submitCount + 1
  /\ nameFailed' = (nameFailed \/ errors'.name # NoError)
  /\ UNCHANGED << values, blurCount, controls, result >>

\* handleSubmit(onSubmit), run by the form's submit event
handleSubmit ==
  /\ submitCount < MaxSubmits
  /\ LET resolved == zodResolver(values)
     IN  /\ errors' = resolved.errors
         /\ sink' = IF resolved.ok THEN onSubmit(resolved.values) ELSE sink
  /\ isSubmitted' = TRUE
  /\ submitCount' = submitCount + 1
  /\ nameFailed' = (nameFailed \/ errors'.name # NoError)
  /\ UNCHANGED << values, blurCount, controls, result >>

Next ==
  \/ \E f \in Fields : \E v \in ControlValues(f) : Change(f, v)
  \/ \E f \in Fields : Blur(f)
  \/ handleSubmit

Spec == Init /\ [][Next]_vars

(***************************************************************************)
(* The validator specification: the resolver applied once to the record    *)
(* read from controls whose contents are drawn from bounded sets.          *)
(***************************************************************************)
\* every text over the alphabet A of at most n characters
TextsUpTo(A, n) == UNION { [1..k -> A] : k \in 0..n }

ValidName == << "a", "b" >>
ValidEmail == << "a", "@", "b", ".", "c", "o", "m" >>
ValidPhone == << "0", "9", "0", "1", "2", "3", "4", "5", "6", "7", "8" >>
ValidMessage == << "a", "b", "c", "a", "b", "c", "a", "b", "c", "a" >>

\* controls holding a record that passes every check
validControls ==
  [name |-> ValidName, email |-> ValidEmail, phone |-> ValidPhone,
   age |-> << "2", "5" >>, gender |-> "male", inquiryType |-> "general",
   message |-> ValidMessage, agree |-> TRUE]

\* every combination of a few contents per control, among them values no
\* control of the form produces (a gender or an inquiryType outside the
\* offered options, an absent inquiryType)
CombinedControls ==
  [name : { << >>, << "a" >>, ValidName },
   email : { << "a", "b" >>, ValidEmail },
   phone : { << "0", "9", "0" >>, ValidPhone },
   age : { << >>, << "1", "5" >>, << "1", "8" >>, << "1", "8", ".", "5" >>,
           << "1", "2", "0" >>, << "1", "2", "1" >> },
   gender : GenderOptions \cup { Null, "unknown" },
   inquiryType : InquiryOptions \cup { "", "billing", Null },
   message : { SubSeq(ValidMessage, 1, 9), ValidMessage },
   agree : BOOLEAN]

PhoneAlphabet == { "7", "-" }
AgeAlphabet == { "0", "1", "2", "8", ".", "-", "x" }
EmailAlphabet == { "a", "@", "." }

\* the contents the validator specification starts from
ControlContents ==
  CombinedControls
    \cup { [validControls EXCEPT !.phone = t] : t \in TextsUpTo(PhoneAlphabet, MaxPhoneLen) }
    \cup { [validControls EXCEPT !.age = t] : t \in TextsUpTo(AgeAlphabet, MaxAgeLen) }
    \cup { [validControls EXCEPT !.email = t] : t \in TextsUpTo(EmailAlphabet, MaxEmailLen) }

InitValidator ==
  /\ values = defaultValues
  /\ errors = NoErrors
  /\ isSubmitted = FALSE
  /\ submitCount = 0
  /\ sink = << >>
  /\ blurCount = 0
  /\ nameFailed = FALSE
  /\ controls \in ControlContents
  /\ result = NotRun

\* the resolver run on the record read from the controls
Resolve ==
  /\ ~result.ran
  /\ result' = [zodResolver(getFieldValues(controls)) EXCEPT !.ran = TRUE]
  /\ UNCHANGED << values, errors, isSubmitted, submitCount, sink, blurCount,
                  nameFailed, controls >>

NextValidator == Resolve

SpecValidator == InitValidator /\ [][NextValidator]_vars

(***************************************************************************)
(* Vocabulary of the properties.                                           *)
(***************************************************************************)
\* the number x is an integer
IsInteger(x) == ~x.nan /\ x.den = 1

\* the constraint the data model states for the attribute f of a record r
DataModelHolds(f, r) ==
  CASE f = "name" -> Len(r.name) >= 2
    [] f = "email" -> EmailMatches(r.email)
    [] f = "phone" -> Len(r.phone) \in { 10, 11 } /\ AllIn(r.phone, Digits)
    [] f = "age" -> /\ IsInteger(r.age)
                    /\ ~NumLess(r.age, 18)
                    /\ ~NumGreater(r.age, 120)
    [] f = "gender" -> r.gender \in { "male", "female", "other" }
    [] f = "inquiryType" -> r.inquiryType \in { "general", "support", "feedback" }
    [] f = "message" -> Len(r.message) >= 10
    [] f = "agree" -> r.agree = TRUE

\* a record is a valid ContactRequest: every attribute's constraint holds
ContactRequestValid(r) == \A f \in Fields : DataModelHolds(f, r)

\* every check of the schema passes for the record r
Accepted(r) == \A f \in Fields : FieldIssues(f, r) = << >>

\* the message of the first rule of key f that the record r violates
FirstMessage(f, r) ==
  IF FieldIssues(f, r) = << >> THEN NoError ELSE FieldIssues(f, r)[1]

\* the kinds of step of the form
SubmitStep == submitCount' = submitCount + 1
BlurStep == blurCount' = blurCount + 1
ChangeStep == values' # values

\* the record the validator specification gave to the resolver
Candidate == getFieldValues(controls)

(***************************************************************************)
(* The properties.                                                         *)
(***************************************************************************)
\* C1: onSubmit is called only by a submit attempt whose draft passes the
\* validation, and then once; a submit attempt whose draft fails calls no
\* handler and leaves a populated error mapping.
C1_HandlerOnlyOnValidSubmit ==
  [][/\ sink' # sink =>
          /\ SubmitStep
          /\ Accepted(values)
          /\ Len(sink') = Len(sink) + 1
     /\ (SubmitStep /\ ~Accepted(values)) =>
          /\ sink' = sink
          /\ errors' # NoErrors
          /\ \A f \in Fields : errors'[f] # NoError => ~(FieldIssues(f, values) = << >>)
    ]_vars

\* C1 witness: after input on name, a submit attempt has failed on the other
\* fields, the handler was not called and errors are displayed
C1_Witness ==
  /\ submitCount = 1
  /\ sink = << >>
  /\ values.name = ValidName
  /\ errors.name = NoError
  /\ errors.email = MsgEmail

\* C2: the validator accepts the draft exactly when the eight constraints of
\* the data model hold, and every record handed to the sink satisfies them.
C2_AcceptsIffDataModel ==
  /\ zodResolver(values).ok <=> ContactRequestValid(values)
  /\ \A i \in 1..Len(sink) : ContactRequestValid(sink[i])

C4_NonNumericAgeIsTypeError ==
  result.ran =>
    /\ ~IsValidFloat(controls.age) => result.errors.age = MsgAgeType
    /\ ( /\ IsValidFloat(controls.age)
         /\ NumLess(ToNumber(controls.age), 18)
         /\ \A f \in Fields \ { "age" } : DataModelHolds(f, Candidate) )
       => /\ ~result.ok
          /\ result.errors = [NoErrors EXCEPT !.age = MsgAgeMin]

\* C4 witness: an unparsable age text was validated and got the type error
C4_Witness ==
  /\ result.ran
  /\ controls.age = << "1", "x" >>
  /\ result.errors.age = MsgAgeType

\* C5: the phone check passes exactly for the texts of 10 or 11 characters
\* that are all ASCII digits.
C5_PhoneExactly10Or11Digits ==
  result.ran =>
    ( result.errors.phone = NoError
      <=> (Len(controls.phone) \in { 10, 11 } /\ AllIn(controls.phone, Digits)) )

\* C5 witness: eleven digits followed by one more character were rejected
C5_Witness ==
  /\ result.ran
  /\ Len(controls.phone) = 12
  /\ AllIn(SubSeq(controls.phone, 1, 11), Digits)
  /\ controls.phone[12] \notin Digits
  /\ result.errors.phone = MsgPhone

\* C6: a record with agree false is rejected whatever the other fields hold;
\* a record with agree true and every other field valid is accepted.
C6_AgreeDecides ==
  result.ran =>
    /\ ~Candidate.agree => (~result.ok /\ result.errors.agree = MsgAgree)
    /\ ( /\ Candidate.agree
         /\ \A f \in Fields \ { "agree" } : DataModelHolds(f, Candidate) )
       => result.ok

\* C6 witness: every field but agree is valid and the record was rejected
C6_Witness ==
  /\ result.ran
  /\ ~controls.agree
  /\ \A f \in Fields \ { "agree" } : DataModelHolds(f, Candidate)
  /\ ~result.ok

C9_SubmitCollectsAllFieldErrors ==
  [][(SubmitStep /\ ~Accepted(values)) =>
       \A f \in Fields : errors'[f] = FirstMessage(f, values)
    ]_vars

\* C9 witness: a submit attempt with no blur before it left errors on several
\* fields and none on the valid ones
C9_Witness ==
  /\ submitCount = 1
  /\ blurCount = 0
  /\ values.name = ValidName
  /\ values.agree
  /\ errors.name = NoError
  /\ errors.agree = NoError
  /\ errors.email = MsgEmail
  /\ errors.age = MsgAgeType
  /\ errors.message = MsgMessage

\* C10: a submit attempt on a valid draft calls onSubmit once, with the
\* record of the draft's values, field for field.
C10_SinkReceivesDraft ==
  [][(SubmitStep /\ ContactRequestValid(values)) => sink' = Append(sink, values)]_vars

\* C10 witness: the record of the example has been delivered, once
C10_Witness ==
  /\ submitCount = 1
  /\ sink = << getFieldValues(validControls) >>
  /\ errors = NoErrors

====
